---- MODULE Spec2Model ----
(***************************************************************************)
(* Model of the SafeBox sandbox engine.                                    *)
(*                                                                         *)
(* Two programs of the repository are modelled.                            *)
(*   - The sandbox manager (sandbox/sandbox_manager.py on top of           *)
(*     sandbox/sandbox_core.py), as it is driven by the request handlers   *)
(*     of sandbox/sandbox_api.py: one module-level SandboxManager shared   *)
(*     by the request threads.  Every handler is cut into steps at its     *)
(*     accesses to shared state (the registry dict, a sandbox object's     *)
(*     main_process, the process table, the filesystem).                   *)
(*   - The monitoring agent (agent/agent.py, run_monitored), a             *)
(*     stand-alone poll loop with its own clock.                           *)
(* A third kind of behaviour calls check_anomalies alone, on samples and   *)
(* policies around its thresholds, a fourth writes a report file and reads *)
(* it back, a fifth builds the environment execute_program gives a target. *)
(* A behaviour runs one of the five; `program` says which.                 *)
(***************************************************************************)
EXTENDS Integers, Sequences, FiniteSets, TLC

\* ---------------------------------------------------------------- bounds
NumThreads == 2      \* concurrent request threads of the API
NumIds == 2          \* size of the id space uuid4()[:8] draws from
MaxSandboxes == 2    \* SandboxEnvironment objects constructed in a run
MaxExecs == 2        \* executions that reach Popen in a run
MaxCalls == 3        \* requests the API serves in a run
MaxTimeout == 3      \* largest timeout run_monitored is called with, in clock units
MaxJitter == 1       \* how late the poll loop may wake from its sleep, in clock units
MaxDelta == 1        \* how far from a threshold the detector's inputs are taken
NumPids == 2         \* size of the pid space the agent's process table draws from

\* poll_interval of run_monitored, in clock units (one unit = 0.25 s)
PollInterval == 2

\* SandboxConfig's defaults and the fixed fork-bomb threshold of check_anomalies
DefaultMaxCpu == 20
DefaultMaxMemory == 256
DefaultProcessesAllowed == 10
ForkBombLimit == 50

Threads == 1..NumThreads
Pids == 1..NumPids
Ids == 1..NumIds

VARIABLES
    program,            \* "manager", "agent", "detector", "serializer", "environment"
    active_sandboxes,   \* SandboxManager.active_sandboxes: the dict's entry array
    sandboxes,          \* heap of SandboxEnvironment objects, in construction order
    execs,              \* one record per Popen attempt: the target's process tree
    dirs,               \* ids whose workspace directory exists on disk
    reports,            \* the report files in <storage>/reports
    th,                 \* per request thread: position in its handler and locals
    calls,              \* requests served so far
    agent,              \* the state of run_monitored: its locals, clock and target
    resp                \* the response returned by the step just taken, or NoResp

vars == <<calls, agent, program, active_sandboxes, sandboxes, execs, dirs, reports, th, resp>>

\* ------------------------------------------------------- the registry dict
\* A CPython dict keeps its entries in an array in insertion order; del leaves
\* a dummy slot behind and does not shift the later entries.
Dummy == [key |-> 0, val |-> 0]

LiveSlots(d) == {i \in 1..Len(d) : d[i].key # 0}

\* ma_used: the number of live entries
Used(d) == Cardinality(LiveSlots(d))

\* `sandbox_id in self.active_sandboxes`
Has(d, id) == \E i \in LiveSlots(d) : d[i].key = id

\* `self.active_sandboxes[sandbox_id]` (0 when the key is absent: KeyError)
Lookup(d, id) == IF Has(d, id) THEN d[CHOOSE i \in LiveSlots(d) : d[i].key = id].val ELSE 0

\* `self.active_sandboxes[sandbox_id] = sandbox`
SetItem(d, id, o) ==
    IF Has(d, id)
    THEN [i \in 1..Len(d) |-> IF d[i].key = id THEN [key |-> id, val |-> o] ELSE d[i]]
    ELSE Append(d, [key |-> id, val |-> o])

\* `del self.active_sandboxes[sandbox_id]`
DelItem(d, id) == [i \in 1..Len(d) |-> IF d[i].key = id THEN Dummy ELSE d[i]]

\* ------------------------------------------------------- policy, samples
\* the policy create_sandbox attaches: the factory passes max_cpu, max_memory_mb
\* and max_duration and leaves processes_allowed at its default
DefaultConfig ==
    [max_cpu_percent |-> DefaultMaxCpu, max_memory_mb |-> DefaultMaxMemory,
     processes_allowed |-> DefaultProcessesAllowed]

\* What psutil gives check_anomalies: no sample (main_process is None, or the pid
\* is gone and NoSuchProcess is raised), or cpu percent, resident memory in MB and
\* the number of descendants of the main process.
NoSample == [ok |-> FALSE, cpu |-> 0, memory |-> 0, num_procs |-> 0]

Sample(cpu, memory, num_procs) ==
    [ok |-> TRUE, cpu |-> cpu, memory |-> memory, num_procs |-> num_procs]

\* ------------------------------------------------------- responses, threads
\* A response: handler `op`, called with sandbox id `id`, returned `val`.  sb and
\* ex are the sandbox object and the execution it worked on, out the ids that
\* list_sandboxes returned, report the report it carries (or NoReport), rm what
\* became of the workspace removal ("none", "removed", "failed"); usage and
\* config are the sample and the policy of a direct call of check_anomalies;
\* scan is what pre_analyze_file gave execute_in_sandbox in the step just taken
\* (execute_in_sandbox reads it once, at line 67, and never again); anomalies is
\* the 'anomalies' of execute's result, which line 75 computes before the report
\* is built; full, file and loaded are a SandboxReport, the file _save_report
\* writes for it and what reading the file back gives; env and cwd are what a
\* direct call of execute_program hands to Popen, arg the env it was called with.
NoReport == [sandbox_id |-> 0, status |-> "none", return_code |-> "none", anomalies |-> <<>>]

\* no SandboxReport object, no report file
NoSandboxReport == [sandbox_id |-> "none"]

\* kvm_manager.py lines 314-324: the MalwareExecutionResult that execute_in_vm
\* starts from (stdout: "", "guest" or "simulated"; stderr: "", "guest",
\* "timed out" or "error"); guest and state are the inputs of the call
NoExecution ==
    [exit_code |-> -1, stdout |-> "", stderr |-> "", success |-> FALSE,
     guest |-> "none", state |-> "none"]

NoResp ==
    [op |-> "none", val |-> "none", id |-> 0, sb |-> 0, ex |-> 0, out |-> {},
     report |-> NoReport, rm |-> "none", usage |-> NoSample, config |-> DefaultConfig,
     scan |-> "none", anomalies |-> <<>>,
     full |-> NoSandboxReport, file |-> NoSandboxReport, loaded |-> NoSandboxReport,
     env |-> <<>>, arg |-> <<>>, cwd |-> "none", vm |-> NoExecution,
     total_processes |-> 0]

Resp(op, val, id, sb, ex) ==
    [op |-> op, val |-> val, id |-> id, sb |-> sb, ex |-> ex, out |-> {},
     report |-> NoReport, rm |-> "none", usage |-> NoSample, config |-> DefaultConfig,
     scan |-> "none", anomalies |-> <<>>,
     full |-> NoSandboxReport, file |-> NoSandboxReport, loaded |-> NoSandboxReport,
     env |-> <<>>, arg |-> <<>>, cwd |-> "none", vm |-> NoExecution,
     total_processes |-> 0]

\* (ver is not a local of the code: it notes how many mutations the registry had
\* seen when list_sandboxes began, for the properties of list)
Idle ==
    [pc |-> "idle", id |-> 0, sb |-> 0, ex |-> 0, pos |-> 0, used |-> 0, out |-> {},
     ver |-> 0]

\* a refusal that leaves the trace of a launch attempt behind
NotFoundAfterLaunch(op, id) ==
    /\ resp' = Resp(op, "NotFound", id, 0, 0)
    /\ execs' = Append(execs, [sb |-> 0, main |-> "nolaunch"])
    /\ UNCHANGED <<sandboxes, reports, th>>

\* execute_in_sandbox 60-61, stop_sandbox 107-108, get_report 117-118: the id is
\* not in the registry: the call returns its refusal and has touched nothing
NotFound(op, id) ==
    /\ resp' = Resp(op, "NotFound", id, 0, 0)
    /\ UNCHANGED <<sandboxes, execs, reports, th>>

\* The request threads are interchangeable, and so are the ids: a request is
\* served by the first thread that is idle, and an id that no sandbox has had yet
\* is the least such id.
Free(t) == th[t].pc = "idle" /\ \A u \in 1..(t - 1) : th[u].pc # "idle"

IdsInUse == {sandboxes[o].sandbox_id : o \in 1..Len(sandboxes)}

\* the ids uuid4()[:8] may give, or a caller may pass: one that a sandbox has had,
\* or a new one
Drawn == {id \in Ids : id <= Cardinality(IdsInUse) + 1}

\* the state after SandboxManager() is constructed at import of sandbox_api
ManagerInit ==
    /\ active_sandboxes = <<>>
    /\ sandboxes = <<>>
    /\ execs = <<>>
    /\ dirs = {}
    /\ reports = {}
    /\ th = [t \in Threads |-> Idle]
    /\ resp = NoResp
    /\ calls = 0

\* ------------------------------------------------------------ create
\* SandboxEnvironment.__init__: no process yet
NewSandbox(id) == [sandbox_id |-> id, main_process |-> 0]

\* create_sandbox: uuid4()[:8] is a draw from the id space, unchecked against
\* the registry; _create_sandbox_dir makes the workspace (exist_ok=True); the new
\* object replaces whatever the dict holds under the id.
create_sandbox(t) ==
    /\ program = "manager"
    /\ Free(t)
    /\ calls < MaxCalls
    /\ calls' = calls + 1
    /\ Len(sandboxes) < MaxSandboxes
    /\ \E id \in Drawn :
        /\ sandboxes' = Append(sandboxes, NewSandbox(id))
        /\ dirs' = dirs \cup {id}
        /\ active_sandboxes' = SetItem(active_sandboxes, id, Len(sandboxes) + 1)
        /\ resp' = Resp("create", "ok", id, Len(sandboxes) + 1, 0)
    /\ UNCHANGED <<agent, program, execs, reports, th>>

\* ------------------------------------------------------- the target's processes
\* The process tree one Popen starts: the main process and at most one descendant
\* in its process group.  What the target does (whether it ignores SIGTERM, whether
\* it leaves a descendant, whether that descendant keeps the stdout/stderr pipes
\* open) is the target's choice, drawn at Popen.
\*   main: "nolaunch" (Popen raised), "running", "zombie" (exited, not yet waited
\*         for), "reaped" (waited for: the pid is gone)
\*   code: "none", "zero", "nonzero", "signal"
\*   child: "none", "alive", "dead"
\*   timedOut: "no", or the state of main when communicate(timeout) expired
\*   lost: the exit status went to a waitpid other than Popen's
\*   many: the descendant stands for more than ForkBombLimit of them (a fork
\*         bomb: its processes keep the default dispositions and hold no pipe)
Behaviours ==
    [ignTerm : BOOLEAN, child : {"none"}, childPipe : {FALSE}, many : {FALSE}]
    \cup [ignTerm : BOOLEAN, child : {"alive"}, childPipe : BOOLEAN, many : {FALSE}]
    \cup [ignTerm : {FALSE}, child : {"alive"}, childPipe : {FALSE}, many : {TRUE}]

\* a descendant inherits the signal dispositions of the main process
Spawn(o, b) ==
    [sb |-> o, main |-> "running", code |-> "none", ignTerm |-> b.ignTerm,
     child |-> b.child, childPipe |-> b.childPipe, many |-> b.many,
     timedOut |-> "no", lost |-> FALSE]

NoLaunch(o) ==
    [sb |-> o, main |-> "nolaunch", code |-> "none", ignTerm |-> FALSE,
     child |-> "none", childPipe |-> FALSE, many |-> FALSE,
     timedOut |-> "no", lost |-> FALSE]

MainAlive(p) == p.main = "running"
ChildAlive(p) == p.child = "alive"
TreeAlive(p) == MainAlive(p) \/ ChildAlive(p)

\* a dead process holds no pipe and has no signal disposition
Tidy(p) ==
    [p EXCEPT !.childPipe = ChildAlive(p) /\ p.childPipe,
              !.many = ChildAlive(p) /\ p.many,
              !.ignTerm = TreeAlive(p) /\ p.ignTerm]

\* os.killpg(pgid, SIGTERM): every member of the group that does not ignore it dies
SigTermGroup(p) ==
    IF p.ignTerm THEN p
    ELSE Tidy([p EXCEPT !.main = IF p.main = "running" THEN "zombie" ELSE @,
                        !.code = IF p.main = "running" THEN "signal" ELSE @,
                        !.child = IF p.child = "alive" THEN "dead" ELSE @])

\* process.kill() / main_process.kill(): SIGKILL to the main process alone
SigKillMain(p) ==
    Tidy([p EXCEPT !.main = IF p.main = "running" THEN "zombie" ELSE @,
                   !.code = IF p.main = "running" THEN "signal" ELSE @])

\* Popen's waitpid on the main process: it gets the exit status and the pid goes
Reap(p) == [p EXCEPT !.main = IF p.main = "zombie" THEN "reaped" ELSE @]

\* psutil's Process.wait on a child of this process also calls waitpid: the
\* status goes to psutil and is lost to the Popen object
ReapByPsutil(p) ==
    [p EXCEPT !.main = IF p.main = "zombie" THEN "reaped" ELSE @,
              !.lost = IF p.main = "zombie" THEN TRUE ELSE @]

\* Popen.returncode once the main process has been waited for: its status, or 0
\* when waitpid finds the child already reaped (ECHILD)
ReturnCode(p) == IF p.lost THEN "zero" ELSE p.code

\* both stdout and stderr are at EOF: no live process holds the write ends
PipesClosed(p) == p.main # "running" /\ ~(p.child = "alive" /\ p.childPipe)

\* the target's own steps: the main process exits, the descendant exits
MainExit(e) ==
    /\ program = "manager"
    /\ calls' = calls
    /\ execs[e].main = "running"
    /\ \E c \in {"zero", "nonzero"} :
        execs' = [execs EXCEPT ![e] = Tidy([@ EXCEPT !.main = "zombie", !.code = c])]
    /\ resp' = NoResp
    /\ UNCHANGED <<agent, program, active_sandboxes, sandboxes, dirs, reports, th>>

ChildExit(e) ==
    /\ program = "manager"
    /\ calls' = calls
    /\ execs[e].child = "alive"
    /\ execs' = [execs EXCEPT ![e] = Tidy([@ EXCEPT !.child = "dead"])]
    /\ resp' = NoResp
    /\ UNCHANGED <<agent, program, active_sandboxes, sandboxes, dirs, reports, th>>

\* ------------------------------------------------------------ reports
\* a detector whose cpu threshold is not strict
check_anomalies_at_limit(u, config) ==
    IF ~u.ok THEN <<>>
    ELSE (IF u.cpu >= config.max_cpu_percent THEN <<"CPU usage exceeds limit">> ELSE <<>>)
      \o (IF u.memory > config.max_memory_mb THEN <<"Memory usage exceeds limit">> ELSE <<>>)
      \o (IF u.num_procs > config.processes_allowed THEN <<"Too many processes">> ELSE <<>>)
      \o (IF u.num_procs > ForkBombLimit THEN <<"Possible fork bomb detected">> ELSE <<>>)

\* SandboxEnvironment.check_anomalies, lines 212-241, on the sample u it takes
check_anomalies(u, config) ==
    IF ~u.ok THEN <<>>
    ELSE (IF u.cpu > config.max_cpu_percent THEN <<"CPU usage exceeds limit">> ELSE <<>>)
      \o (IF u.memory > config.max_memory_mb THEN <<"Memory usage exceeds limit">> ELSE <<>>)
      \o (IF u.num_procs > config.processes_allowed THEN <<"Too many processes">> ELSE <<>>)
      \o (IF u.num_procs > ForkBombLimit THEN <<"Possible fork bomb detected">> ELSE <<>>)

\* SandboxEnvironment.monitor_resource_usage, lines 192-210, on the sample u it
\* takes: zeros without a sample, else num_processes = the descendants + 1
monitor_resource_usage(u) ==
    IF ~u.ok THEN [cpu_percent |-> 0, memory_mb |-> 0, num_processes |-> 0]
    ELSE [cpu_percent |-> u.cpu, memory_mb |-> u.memory, num_processes |-> u.num_procs + 1]

\* len(get_child_processes()) for the tree p: the live descendants of its main
\* process (a process that exits loses its children to init)
NumChildren(p) ==
    IF p.main = "running" /\ p.child = "alive"
    THEN (IF p.many THEN ForkBombLimit + 1 ELSE 1)
    ELSE 0

\* the samples check_anomalies may take of main_process m, the processes being ex
\* (the cpu use at and above the limit, the memory at the limit)
Samples(m, ex) ==
    IF m = 0 \/ ex[m].main = "reaped" THEN {NoSample}
    ELSE IF ex[m].main = "zombie" THEN {Sample(0, 0, 0)}
    ELSE {Sample(c, DefaultMaxMemory, NumChildren(ex[m])) :
            c \in {DefaultMaxCpu, DefaultMaxCpu + 1}}

\* SandboxEnvironment.generate_report: status and return_code are the caller's
\* arguments, sandbox_id the object's, anomalies what check_anomalies finds in the
\* sample u it takes of the sandbox's main_process
generate_report(o, status, return_code, u) ==
    [sandbox_id |-> sandboxes[o].sandbox_id, status |-> status, return_code |-> return_code,
     anomalies |-> check_anomalies(u, DefaultConfig)]

\* The clock of _save_report's file names has a resolution of one second
\* (strftime('%Y%m%d_%H%M%S')).  Only files of the same sandbox id can have the
\* same name, so seconds are counted per id, from the first file of the id: a
\* file is named in the second of the latest file of its id, or in a later one.
LastSecond(id) ==
    CHOOSE n \in 0..Cardinality(reports) :
        /\ \A f \in reports : f.name[1] = id => f.name[2] <= n
        /\ n = 0 \/ \E f \in reports : f.name[1] = id /\ f.name[2] = n

Seconds(id) == IF LastSecond(id) = 0 THEN {1} ELSE {LastSecond(id), LastSecond(id) + 1}

\* SandboxManager._save_report at second sec: the file <sandbox_id>_<sec>.json is
\* opened with 'w', which truncates a file of that name (ex: the execution the
\* report is of)
SaveReport(r, e, sec) ==
    {f \in reports : f.name # <<r.sandbox_id, sec>>}
        \cup {[name |-> <<r.sandbox_id, sec>>, report |-> r, ex |-> e]}

\* ------------------------------------------------------------ execute
\* what pre_analyze_file returns (lines 26-48): an 'error' for a path that does
\* not exist, else the detector's verdict as the flag 'safe'
PreAnalysis == {"error", "safe", "unsafe"}

\* the status execute_in_sandbox gives every report it builds (line 78)
ExecStatus == "completed"

\* execute_in_sandbox, lines 73-90: check_anomalies takes its sample (line 75),
\* then the report of execution e of sandbox o with return code rc is built from
\* a sample of its own (line 78), saved and returned
FinishExecute(t, rc) ==
    /\ \E a, u \in Samples(sandboxes[th[t].sb].main_process, execs'),
          sec \in Seconds(th[t].id) :
        LET r == generate_report(th[t].sb, ExecStatus, rc, u)
        IN /\ reports' = SaveReport(r, th[t].ex, sec)
           /\ resp' = [Resp("execute", "ok", th[t].id, th[t].sb, th[t].ex)
                          EXCEPT !.report = r,
                                 !.anomalies = check_anomalies(a, DefaultConfig)]
    /\ th' = [th EXCEPT ![t] = Idle]

\* execute_in_sandbox up to the Popen of execute_program (lines 60-71, 112-146).
\*   line 60: an id the registry does not hold ends the call with an error;
\*   lines 66-68: pre_analyze_file: a program path that does not exist ends the
\*     call with the pre-scan's error, and no report is built; the verdict 'safe'
\*     is not looked at;
\*   lines 133-142: Popen with cwd = the workspace; it raises when the file cannot
\*     be executed or the workspace is gone, and the handler at line 161 turns that
\*     into return code -1; otherwise main_process becomes the new child.
exec_start(t) ==
    /\ program = "manager"
    /\ Free(t)
    /\ calls < MaxCalls
    /\ calls' = calls + 1
    /\ \E id \in Drawn :
        IF ~Has(active_sandboxes, id)
        THEN NotFound("execute", id)
        ELSE LET o == Lookup(active_sandboxes, id)
                 e == Len(execs) + 1
             IN \E pre \in PreAnalysis :
                IF pre = "error"
                THEN /\ resp' = [Resp("execute", "PreScanError", id, o, 0)
                                    EXCEPT !.scan = pre]
                     /\ UNCHANGED <<sandboxes, execs, reports, th>>
                ELSE /\ Len(execs) < MaxExecs
                     /\ \E launch \in BOOLEAN :
                        IF launch /\ id \in dirs
                        THEN /\ \E b \in Behaviours : execs' = Append(execs, Spawn(o, b))
                             /\ sandboxes' = [sandboxes EXCEPT ![o].main_process = e]
                             /\ th' = [th EXCEPT ![t] = [Idle EXCEPT
                                          !.pc = "exec_communicate", !.id = id,
                                          !.sb = o, !.ex = e]]
                             /\ resp' = [NoResp EXCEPT !.scan = pre]
                             /\ reports' = reports
                        ELSE \E a, u \in Samples(sandboxes[o].main_process, execs),
                                sec \in Seconds(id) :
                             LET r == generate_report(o, ExecStatus, "minus1", u)
                             IN /\ execs' = Append(execs, NoLaunch(o))
                                /\ sandboxes' = sandboxes
                                /\ th' = th
                                /\ reports' = SaveReport(r, e, sec)
                                /\ resp' = [Resp("execute", "ok", id, o, e)
                                               EXCEPT !.report = r, !.scan = pre,
                                                      !.anomalies =
                                                        check_anomalies(a, DefaultConfig)]
    /\ UNCHANGED <<agent, program, active_sandboxes, dirs>>

\* execute_program, lines 151-152: communicate(timeout) returns once both pipes are
\* at EOF and the main process has been waited for; then the report
exec_finish(t) ==
    /\ program = "manager"
    /\ calls' = calls
    /\ th[t].pc = "exec_communicate"
    /\ PipesClosed(execs[th[t].ex])
    /\ execs' = [execs EXCEPT ![th[t].ex] = Reap(@)]
    /\ FinishExecute(t, ReturnCode(execs[th[t].ex]))
    /\ UNCHANGED <<agent, program, active_sandboxes, sandboxes, dirs>>

\* lines 153-155: the timeout expires first: TimeoutExpired, then process.kill()
exec_timeout(t) ==
    /\ program = "manager"
    /\ calls' = calls
    /\ th[t].pc = "exec_communicate"
    /\ ~PipesClosed(execs[th[t].ex])
    /\ execs' = [execs EXCEPT ![th[t].ex] =
                    [SigKillMain(@) EXCEPT !.timedOut = execs[th[t].ex].main]]
    /\ th' = [th EXCEPT ![t].pc = "exec_drain"]
    /\ resp' = NoResp
    /\ UNCHANGED <<agent, program, active_sandboxes, sandboxes, dirs, reports>>

\* lines 156-157: communicate() with no timeout, then return code -1 and the report
exec_drain(t) ==
    /\ program = "manager"
    /\ calls' = calls
    /\ th[t].pc = "exec_drain"
    /\ PipesClosed(execs[th[t].ex])
    /\ execs' = [execs EXCEPT ![th[t].ex] = Reap(@)]
    /\ FinishExecute(t, "minus1")
    /\ UNCHANGED <<agent, program, active_sandboxes, sandboxes, dirs>>

\* ------------------------------------------------------------ stop
\* a cleanup that removes nothing
RmtreeSkipped(d, id, ok) == d

\* terminate, lines 262-268: shutil.rmtree of the workspace; a failure is swallowed
Rmtree(d, id, ok) == IF ok THEN d \ {id} ELSE d

\* terminate's rmtree and return, then stop_sandbox's del (line 112), which raises
\* KeyError when the key is no longer in the dict
FinishStop(t, o) ==
    /\ \E ok \in BOOLEAN :
        /\ dirs' = Rmtree(dirs, sandboxes[o].sandbox_id, ok)
        /\ IF Has(active_sandboxes, th[t].id)
           THEN /\ active_sandboxes' = DelItem(active_sandboxes, th[t].id)
                /\ resp' = [Resp("stop", "ok", th[t].id, o, 0)
                               EXCEPT !.rm = IF ok THEN "removed" ELSE "failed"]
           ELSE /\ active_sandboxes' = active_sandboxes
                /\ resp' = [Resp("stop", "KeyError", th[t].id, o, 0)
                               EXCEPT !.rm = IF ok THEN "removed" ELSE "failed"]
    /\ th' = [th EXCEPT ![t] = Idle]

\* stop_sandbox, lines 107-111, and terminate, lines 245-251: an id the registry
\* does not hold ends the call with False.  Otherwise, with a main_process,
\* SIGTERM goes to its process group; with none, or when os.getpgid raises
\* ProcessLookupError because the pid is gone (line 259), nothing is signalled
\* and terminate goes to the cleanup.
stop_start(t) ==
    /\ program = "manager"
    /\ calls < MaxCalls
    /\ calls' = calls + 1
    /\ Free(t)
    /\ \E id \in Drawn :
        IF ~Has(active_sandboxes, id)
        THEN NotFound("stop", id)
        ELSE LET o == Lookup(active_sandboxes, id)
                 m == sandboxes[o].main_process
             IN /\ resp' = NoResp
                /\ IF m = 0 \/ execs[m].main = "reaped"
                   THEN /\ th' = [th EXCEPT ![t] = [Idle EXCEPT
                                     !.pc = "stop_cleanup", !.id = id, !.sb = o]]
                        /\ execs' = execs
                   ELSE /\ th' = [th EXCEPT ![t] = [Idle EXCEPT
                                     !.pc = "stop_wait", !.id = id, !.sb = o]]
                        /\ execs' = [execs EXCEPT ![m] = SigTermGroup(@)]
    /\ UNCHANGED <<agent, program, active_sandboxes, sandboxes, dirs, reports>>

\* terminate, lines 254-257: main_process.wait(timeout=5) returns when the main
\* process is gone; when it is still running after the grace period, kill() it.
\* Then the cleanup and the del.
stop_wait(t) ==
    /\ program = "manager"
    /\ calls' = calls
    /\ th[t].pc = "stop_wait"
    /\ LET m == sandboxes[th[t].sb].main_process
       IN execs' = [execs EXCEPT ![m] =
                        IF @.main = "running" THEN SigKillMain(@) ELSE ReapByPsutil(@)]
    /\ FinishStop(t, th[t].sb)
    /\ UNCHANGED <<agent, program, sandboxes, reports>>

\* terminate, lines 262-268, for a sandbox with nothing to signal, and the del
stop_cleanup(t) ==
    /\ program = "manager"
    /\ calls' = calls
    /\ th[t].pc = "stop_cleanup"
    /\ FinishStop(t, th[t].sb)
    /\ UNCHANGED <<agent, program, sandboxes, execs, reports>>

\* ------------------------------------------------------------ get_report
\* the status of a finished execution in place of 'running'
GetStatusCompleted == "completed"

\* the status get_report gives every report it builds (line 121)
GetStatus == "running"

\* get_report, line 117: the membership test
get_check(t) ==
    /\ program = "manager"
    /\ Free(t)
    /\ calls < MaxCalls
    /\ calls' = calls + 1
    /\ \E id \in Drawn :
        IF Has(active_sandboxes, id)
        THEN /\ th' = [th EXCEPT ![t] = [Idle EXCEPT !.pc = "get_report", !.id = id]]
             /\ resp' = NoResp
        ELSE NotFound("get_report", id)
    /\ UNCHANGED <<agent, program, active_sandboxes, sandboxes, execs, dirs, reports>>

\* a get_report that drops the sandbox from the registry once it has reported
get_report_popping(t) ==
    /\ program = "manager"
    /\ calls' = calls
    /\ th[t].pc = "get_report"
    /\ IF ~Has(active_sandboxes, th[t].id)
       THEN /\ resp' = Resp("get_report", "KeyError", th[t].id, 0, 0)
            /\ active_sandboxes' = active_sandboxes
       ELSE LET o == Lookup(active_sandboxes, th[t].id)
            IN /\ \E u \in Samples(sandboxes[o].main_process, execs) :
                    resp' = [Resp("get_report", "ok", th[t].id, o, 0)
                               EXCEPT !.report = generate_report(o, GetStatus, "null", u)]
               /\ active_sandboxes' = DelItem(active_sandboxes, th[t].id)
    /\ th' = [th EXCEPT ![t] = Idle]
    /\ UNCHANGED <<agent, program, sandboxes, execs, dirs, reports>>

\* a get_report that sends SIGTERM to the sandbox's process group when the
\* report it builds has an anomaly
get_report_strict(t) ==
    /\ program = "manager"
    /\ calls' = calls
    /\ th[t].pc = "get_report"
    /\ IF ~Has(active_sandboxes, th[t].id)
       THEN /\ resp' = Resp("get_report", "KeyError", th[t].id, 0, 0)
            /\ execs' = execs
       ELSE LET o == Lookup(active_sandboxes, th[t].id)
                m == sandboxes[o].main_process
            IN \E u \in Samples(m, execs) :
                LET r == generate_report(o, GetStatus, "null", u)
                IN /\ resp' = [Resp("get_report", "ok", th[t].id, o, 0) EXCEPT !.report = r]
                   /\ execs' = IF r.anomalies = <<>> THEN execs
                                ELSE [execs EXCEPT ![m] = SigTermGroup(@)]
    /\ th' = [th EXCEPT ![t] = Idle]
    /\ UNCHANGED <<agent, program, active_sandboxes, sandboxes, dirs, reports>>

\* lines 120-122: the lookup and generate_report('running')
get_report(t) ==
    /\ program = "manager"
    /\ calls' = calls
    /\ th[t].pc = "get_report"
    /\ IF ~Has(active_sandboxes, th[t].id)
       THEN resp' = Resp("get_report", "KeyError", th[t].id, 0, 0)
       ELSE LET o == Lookup(active_sandboxes, th[t].id)
            IN \E u \in Samples(sandboxes[o].main_process, execs) :
                resp' = [Resp("get_report", "ok", th[t].id, o, 0)
                           EXCEPT !.report = generate_report(o, GetStatus, "null", u)]
    /\ th' = [th EXCEPT ![t] = Idle]
    /\ UNCHANGED <<agent, program, active_sandboxes, sandboxes, execs, dirs, reports>>

\* ------------------------------------------------------------ list
\* the slots after position pos that hold an entry
SlotsFrom(d, pos) == {i \in LiveSlots(d) : i > pos}

Min(S) == CHOOSE x \in S : \A y \in S : x <= y

\* the keys of the dict
Keys(d) == {d[i].key : i \in LiveSlots(d)}

\* how many inserts and deletes the registry has seen: every create constructs a
\* sandbox object and every delete leaves a dummy slot
Mutations == Len(sandboxes) + Len(active_sandboxes) - Used(active_sandboxes)

\* list_sandboxes, line 95: the dict iterator is made (it remembers ma_used) and
\* gives its first entry, whose summary the loop body then builds; an empty dict
\* ends the call at once
list_start(t) ==
    /\ program = "manager"
    /\ calls < MaxCalls
    /\ calls' = calls + 1
    /\ Free(t)
    /\ IF SlotsFrom(active_sandboxes, 0) = {}
       THEN /\ th' = th
            /\ resp' = Resp("list", "ok", 0, 0, 0)
       ELSE LET i == Min(SlotsFrom(active_sandboxes, 0))
            IN /\ th' = [th EXCEPT ![t] = [Idle EXCEPT
                            !.pc = "list_next", !.used = Used(active_sandboxes),
                            !.pos = i, !.out = {active_sandboxes[i].key},
                            !.ver = Mutations]]
               /\ resp' = NoResp
    /\ UNCHANGED <<agent, program, active_sandboxes, sandboxes, execs, dirs, reports>>

\* lines 95-103: the next() after a loop body: RuntimeError when the dict changed
\* size since the iterator was made, else the next live slot, else the end
list_next(t) ==
    /\ program = "manager"
    /\ calls' = calls
    /\ th[t].pc = "list_next"
    /\ IF Used(active_sandboxes) # th[t].used
       THEN /\ th' = [th EXCEPT ![t] = Idle]
            /\ resp' = Resp("list", "RuntimeError", 0, 0, 0)
       ELSE IF SlotsFrom(active_sandboxes, th[t].pos) = {}
       THEN /\ th' = [th EXCEPT ![t] = Idle]
            /\ resp' = [Resp("list", "ok", 0, 0, 0) EXCEPT !.out = th[t].out]
       ELSE LET i == Min(SlotsFrom(active_sandboxes, th[t].pos))
            IN /\ th' = [th EXCEPT ![t].pos = i,
                                   ![t].out = @ \cup {active_sandboxes[i].key}]
               /\ resp' = NoResp
    /\ UNCHANGED <<agent, program, active_sandboxes, sandboxes, execs, dirs, reports>>

\* ------------------------------------------------------------ the agent
\* run_monitored(path, timeout): the locals of the call, the report dict it
\* builds, the clock and the target it started.
\*   pc: "init", "loop" (top of the while), "sleep", "done" (returned)
\*   events: the 'event' of each entry of report['events'], in order
\*   returncode: the 'returncode' of the process-exited event
\*   processes, network: the lengths of report['processes'], report['network']
\*   target: "none", "running", "exited"; exitAt: the clock when it exited
\*   files: report files written
\*   keys: the keys of the report dict; written: the keys of the report file
\*   written; ret: what the call returned ("none" while it has not)
\*   baseline: baseline_pids; created: the pid of each process-created event, in
\*   order (baseline0 is not a local of the code: it keeps the baseline of line 27)
AgentOff ==
    [pc |-> "off", now |-> 0, timeout |-> 0, start_time |-> -1, start |-> -1,
     end_time |-> -1, events |-> <<>>, returncode |-> "none", processes |-> 0,
     network |-> 0, error |-> FALSE, files |-> 0, target |-> "none",
     code |-> "none", exitAt |-> -1, ignTerm |-> FALSE, wake |-> 0,
     keys |-> {}, written |-> {}, ret |-> "none",
     baseline |-> {}, baseline0 |-> {}, created |-> <<>>]

AgentInit == \E to \in 1..MaxTimeout : agent = [AgentOff EXCEPT !.pc = "init", !.timeout = to]

AgentFrame == UNCHANGED <<calls, program, active_sandboxes, sandboxes, execs, dirs, reports, th, resp>>

\* the keys of the report dict at line 25
InitialKeys == {"start_time", "path", "events", "processes", "network"}

\* a finalize that dumps the report before it stamps end_time
FinalizeUnstamped(a) ==
    [a EXCEPT !.end_time = a.now, !.keys = @ \cup {"end_time"}, !.written = a.keys,
              !.files = @ + 1, !.ret = "fname", !.pc = "done"]

\* lines 88-104: end_time, the report file, the target's output, return fname
Finalize(a) ==
    [a EXCEPT !.end_time = a.now, !.keys = @ \cup {"end_time"},
              !.written = a.keys \cup {"end_time"},
              !.files = @ + 1, !.ret = "fname", !.pc = "done"]

\* proc.terminate(): SIGTERM to the main process
Terminate(a) ==
    IF a.target = "running" /\ ~a.ignTerm
    THEN [a EXCEPT !.target = "exited", !.code = "signal", !.exitAt = a.now]
    ELSE a

\* lines 24-39: the report dict, the baseline of the pids in the process table,
\* then Popen; a launch failure writes the report with 'error' and returns
run_start ==
    /\ program = "agent"
    /\ agent.pc = "init"
    /\ \E launch \in BOOLEAN, ign \in BOOLEAN :
        IF launch
        THEN \E table \in SUBSET Pids :
             agent' = [agent EXCEPT !.start_time = agent.now, !.start = agent.now,
                                    !.keys = InitialKeys,
                                    !.baseline = table, !.baseline0 = table,
                                    !.target = "running", !.ignTerm = ign, !.pc = "loop"]
        ELSE agent' = [agent EXCEPT !.start_time = agent.now, !.error = TRUE,
                                    !.end_time = agent.now,
                                    !.keys = InitialKeys \cup {"error", "end_time"},
                                    !.written = InitialKeys \cup {"error", "end_time"},
                                    !.files = @ + 1, !.ret = "fname", !.pc = "done"]
    /\ AgentFrame

\* lines 42-46: elapsed > timeout: terminate, the timeout-kill event, break
TimedOut(a) == a.now - a.start > a.timeout

\* lines 48-50: the main process has exited: the process-exited event, break
Exited(a) == a.target = "exited"

\* an exit check that logs the exit and goes on with the loop
OnExitNoBreak(a) ==
    [a EXCEPT !.events = Append(@, "process-exited"), !.returncode = a.code,
              !.pc = "sleep", !.wake = a.now + PollInterval]

\* lines 49-50 and 88-104: the process-exited event with proc.returncode, the
\* break, the finalize
OnExit(a) ==
    Finalize([a EXCEPT !.events = Append(@, "process-exited"), !.returncode = a.code])

\* the orders in which a for loop may go through the set S
Orderings(S) == {q \in [1..Cardinality(S) -> S] : \A x \in S : \E i \in DOMAIN q : q[i] = x}

\* a loop that alerts and leaves the baseline as it was
FoldNothing(baseline, new) == baseline

\* line 71: baseline_pids = baseline_pids.union(new)
FoldBaseline(baseline, new) == baseline \cup new

\* a tick that looks at the exit of the target before it looks at the clock
run_tick_exit_first ==
    /\ program = "agent"
    /\ agent.pc = "loop"
    /\ IF Exited(agent)
       THEN agent' = OnExit(agent)
       ELSE IF TimedOut(agent)
       THEN agent' = Finalize([Terminate(agent) EXCEPT !.events = Append(@, "timeout-kill")])
       ELSE \E net \in BOOLEAN, table \in SUBSET Pids :
            \E new \in Orderings(table \ agent.baseline) :
            agent' = [agent EXCEPT !.processes = @ + 1,
                                   !.events = @ \o [i \in 1..Len(new) |-> "process-created"],
                                   !.created = @ \o new,
                                   !.baseline = FoldBaseline(@, table \ agent.baseline),
                                   !.network = IF net THEN @ + 1 ELSE @,
                                   !.pc = "sleep", !.wake = agent.now + PollInterval]
    /\ AgentFrame

\* lines 41-82: one iteration of the while loop, up to the sleep: the timeout
\* check, the exit check, the process sample, a process-created event for every
\* pid of the process table that the baseline does not have, the network
\* snapshot (none when the sample fails)
run_tick ==
    /\ program = "agent"
    /\ agent.pc = "loop"
    /\ IF TimedOut(agent)
       THEN agent' = Finalize([Terminate(agent) EXCEPT !.events = Append(@, "timeout-kill")])
       ELSE IF Exited(agent)
       THEN agent' = OnExit(agent)
       ELSE \E net \in BOOLEAN, table \in SUBSET Pids :
            \E new \in Orderings(table \ agent.baseline) :
            agent' = [agent EXCEPT !.processes = @ + 1,
                                   !.events = @ \o [i \in 1..Len(new) |-> "process-created"],
                                   !.created = @ \o new,
                                   !.baseline = FoldBaseline(@, table \ agent.baseline),
                                   !.network = IF net THEN @ + 1 ELSE @,
                                   !.pc = "sleep", !.wake = agent.now + PollInterval]
    /\ AgentFrame

\* line 82: time.sleep(poll_interval): the clock advances while the loop sleeps
Tick ==
    /\ program = "agent"
    /\ agent.pc = "sleep"
    /\ agent.now < agent.wake + MaxJitter
    /\ agent' = [agent EXCEPT !.now = @ + 1]
    /\ AgentFrame

\* the sleep returns, no earlier than poll_interval after it began
Wake ==
    /\ program = "agent"
    /\ agent.pc = "sleep"
    /\ agent.now >= agent.wake
    /\ agent' = [agent EXCEPT !.pc = "loop"]
    /\ AgentFrame

\* the target exits by itself
TargetExit ==
    /\ program = "agent"
    /\ agent.target = "running"
    /\ agent.pc \in {"loop", "sleep"}
    /\ \E c \in {"zero", "nonzero"} :
        agent' = [agent EXCEPT !.target = "exited", !.code = c, !.exitAt = agent.now]
    /\ AgentFrame

\* lines 84-86: a KeyboardInterrupt raised inside the loop: terminate, the
\* keyboard-interrupt event, then the finalize
Interrupt ==
    /\ program = "agent"
    /\ agent.pc \in {"loop", "sleep"}
    /\ agent' = Finalize([Terminate(agent) EXCEPT !.events = Append(@, "keyboard-interrupt")])
    /\ AgentFrame

AgentNext == run_start \/ run_tick \/ Tick \/ Wake \/ TargetExit \/ Interrupt

\* ------------------------------------------------------------ the detector
\* the values within MaxDelta of threshold x
Around(x) == (x - MaxDelta)..(x + MaxDelta)

\* samples around the thresholds of the policies below
DetectorSamples ==
    {Sample(c, m, n) : c \in Around(DefaultMaxCpu), m \in Around(DefaultMaxMemory),
                       n \in Around(DefaultProcessesAllowed) \cup Around(ForkBombLimit)}

\* policies whose processes_allowed lies below, at and above the fork-bomb threshold
Policies ==
    [max_cpu_percent : {DefaultMaxCpu}, max_memory_mb : {DefaultMaxMemory},
     processes_allowed : {DefaultProcessesAllowed, ForkBombLimit,
                          ForkBombLimit + DefaultProcessesAllowed}]

\* check_anomalies called on a SandboxEnvironment whose policy is c and whose
\* main process gives the sample u, as generate_report calls it (lines 270-286):
\* total_processes from monitor_resource_usage, the anomalies from check_anomalies
check_anomalies_call ==
    /\ program = "detector"
    /\ \E u \in DetectorSamples, c \in Policies :
        resp' = [NoResp EXCEPT !.op = "check_anomalies", !.val = "ok",
                              !.usage = u, !.config = c,
                              !.total_processes = monitor_resource_usage(u).num_processes,
                              !.report = [NoReport EXCEPT
                                            !.anomalies = check_anomalies(u, c)]]
    /\ UNCHANGED <<calls, agent, program, active_sandboxes, sandboxes, execs, dirs, reports, th>>

\* ------------------------------------------------------------ the report file
\* the order in which check_anomalies lists what it finds
AnomalyOrder ==
    <<"CPU usage exceeds limit", "Memory usage exceeds limit", "Too many processes",
      "Possible fork bomb detected">>

\* Python values, tagged with their type.  A float is held in tenths (psutil
\* rounds cpu_percent to one decimal; repr writes the shortest text that reads
\* back as the same float).
PyNone == [t |-> "NoneType", v |-> 0]
PyInt(n) == [t |-> "int", v |-> n]
PyFloat(q) == [t |-> "float", v |-> q]
PyStr(str) == [t |-> "str", v |-> 0, s |-> str]
PyList(l) == [t |-> "list", v |-> 0, l |-> l]

\* Python's ==: an int and a float are equal when they are the same number
PyEq(x, y) ==
    IF x.t = y.t THEN x = y
    ELSE \/ x.t = "int" /\ y.t = "float" /\ 10 * x.v = y.v
         \/ x.t = "float" /\ y.t = "int" /\ x.v = 10 * y.v

DigitChars == <<"0", "1", "2", "3", "4", "5", "6", "7", "8", "9">>

RECURSIVE ReprNat(_)
ReprNat(n) ==
    IF n < 10 THEN <<DigitChars[n + 1]>>
    ELSE ReprNat(n \div 10) \o <<DigitChars[(n % 10) + 1]>>

Abs(n) == IF n < 0 THEN -n ELSE n

Sign(n) == IF n < 0 THEN <<"-">> ELSE <<>>

\* the items of a list of strings, quoted and separated by commas
RECURSIVE Items(_)
Items(l) ==
    IF l = <<>> THEN <<>>
    ELSE <<"\"", Head(l), "\"">> \o (IF Len(l) > 1 THEN <<",">> ELSE <<>>) \o Items(Tail(l))

\* an encoder that writes what it cannot encode as the text of str(): None
\* becomes the string "None"
json_dumps_default_str(x) ==
    CASE x.t = "NoneType" -> <<"\"", "None", "\"">>
      [] x.t = "int" -> Sign(x.v) \o ReprNat(Abs(x.v))
      [] x.t = "float" -> Sign(x.v) \o ReprNat(Abs(x.v) \div 10) \o <<".">> \o ReprNat(Abs(x.v) % 10)
      [] x.t = "str" -> <<"\"", x.s, "\"">>
      [] x.t = "list" -> <<"[">> \o Items(x.l) \o <<"]">>

\* what json.dump writes for one value of a report (the text as its tokens; a
\* string's content is one token)
json_dumps(x) ==
    CASE x.t = "NoneType" -> <<"null">>
      [] x.t = "int" -> Sign(x.v) \o ReprNat(Abs(x.v))
      [] x.t = "float" -> Sign(x.v) \o ReprNat(Abs(x.v) \div 10) \o <<".">> \o ReprNat(Abs(x.v) % 10)
      [] x.t = "str" -> <<"\"", x.s, "\"">>
      [] x.t = "list" -> <<"[">> \o Items(x.l) \o <<"]">>

DigitValue(c) == CHOOSE d \in 0..9 : DigitChars[d + 1] = c

RECURSIVE ParseNat(_)
ParseNat(txt) ==
    IF txt = <<>> THEN 0
    ELSE 10 * ParseNat(SubSeq(txt, 1, Len(txt) - 1)) + DigitValue(txt[Len(txt)])

\* a JSON number: an int when it has no fraction, else a float
ParseNumber(txt) ==
    LET body == IF txt[1] = "-" THEN Tail(txt) ELSE txt
        sgn == IF txt[1] = "-" THEN -1 ELSE 1
        dots == {i \in 1..Len(body) : body[i] = "."}
    IN IF dots = {} THEN PyInt(sgn * ParseNat(body))
       ELSE LET d == CHOOSE i \in dots : TRUE
            IN PyFloat(sgn * (10 * ParseNat(SubSeq(body, 1, d - 1))
                                + ParseNat(SubSeq(body, d + 1, Len(body)))))

\* what json.load reads from the text of one value
json_loads(txt) ==
    IF txt = <<"null">> THEN PyNone
    ELSE IF txt[1] = "\"" THEN PyStr(txt[2])
    ELSE IF txt[1] = "[" THEN PyList([i \in 1..((Len(txt) - 1) \div 4) |-> txt[4 * i - 1]])
    ELSE ParseNumber(txt)

\* SandboxReport.to_dict: asdict gives a dict with one key per field
to_dict(report) == [f \in DOMAIN report |-> report[f]]

\* _save_report, lines 156-157: json.dump of the dict: the file, key by key
json_dump(d) == [f \in DOMAIN d |-> json_dumps(d[f])]

\* reading the file back: json.load, then SandboxReport(**dict)
json_load(file) == [f \in DOMAIN file |-> json_loads(file[f])]

\* the SandboxReport objects generate_report can build: return_code is None
\* (get_report), -1, 0, an exit code or minus a signal number; the usage totals
\* are the ints of the initial usage dict or psutil's floats; network_monitor and
\* file_access_log are never appended to
SandboxReports ==
    [sandbox_id : {PyStr("1a2b3c4d")},
     start_time : {PyStr("2026-01-01T00:00:00.000001")},
     end_time : {PyNone, PyStr("2026-01-01T00:00:01")},
     status : {PyStr("completed")},
     return_code : {PyNone, PyInt(-9), PyInt(-1), PyInt(0), PyInt(127)},
     total_processes : {PyInt(ForkBombLimit + 2)},
     total_cpu_used : {PyInt(0), PyFloat(0), PyFloat(10 * DefaultMaxCpu + 5)},
     total_memory_used : {PyInt(0), PyFloat(10 * DefaultMaxMemory + 7)},
     network_activity : {PyList(<<>>)},
     file_access_attempts : {PyList(<<>>)},
     anomalies_detected : {PyList(<<>>), PyList(<<AnomalyOrder[1]>>),
                           PyList(<<AnomalyOrder[3], AnomalyOrder[4]>>)}]

\* _save_report writes a report; the file is read back
save_report_call ==
    /\ program = "serializer"
    /\ \E r \in SandboxReports :
        resp' = [NoResp EXCEPT !.op = "save_report", !.val = "ok", !.full = r,
                              !.file = json_dump(to_dict(r)),
                              !.loaded = json_load(json_dump(to_dict(r)))]
    /\ UNCHANGED <<calls, agent, program, active_sandboxes, sandboxes, execs, dirs, reports, th>>

\* ------------------------------------------------------------ the environment
\* An environment maps each variable to its value, or to "unset".  Values are
\* "host" (what the engine's own process has), "caller" (what the caller of
\* execute_program passes) and, for the overlay, the sandbox's id and paths.
EnvKeys == {"SANDBOX_ID", "SANDBOX_ROOT", "HOME", "TMPDIR", "PATH"}

\* dict.update: the entries of e replace those of d
Update(d, e) == [k \in EnvKeys |-> IF e[k] # "unset" THEN e[k] ELSE d[k]]

\* lines 120-123: the four variables execute_program binds to the sandbox
Overlay ==
    [k \in EnvKeys |->
        CASE k = "SANDBOX_ID" -> "sandbox_id"
          [] k \in {"SANDBOX_ROOT", "HOME"} -> "sandbox_dir"
          [] k = "TMPDIR" -> "sandbox_dir/tmp"
          [] OTHER -> "unset"]

\* os.environ of the engine: HOME and PATH are set, TMPDIR may be
HostEnvs == [EnvKeys -> {"unset", "host"}]

\* the env argument: None (nothing set), or a dict of the caller's
CallerEnvs == [EnvKeys -> {"unset", "caller"}]

\* lines 119-126: the environment handed to Popen
sandbox_env(environ, env) == Update(Update(environ, Overlay), env)

\* execute_program called with env on a host whose environment is environ: what
\* Popen gets as env and cwd (lines 133-136)
execute_program_call ==
    /\ program = "environment"
    /\ \E environ \in {h \in HostEnvs : h["HOME"] = "host" /\ h["PATH"] = "host"
                                        /\ h["SANDBOX_ROOT"] = "unset"},
          env \in CallerEnvs :
        resp' = [NoResp EXCEPT !.op = "execute_program", !.val = "ok",
                              !.env = sandbox_env(environ, env),
                              !.cwd = "sandbox_dir", !.arg = env]
    /\ UNCHANGED <<calls, agent, program, active_sandboxes, sandboxes, execs, dirs, reports, th>>

\* ------------------------------------------------------------ the VM runner
\* what the VM is before the call: get_vm_status gives its state, or None when
\* libvirt has no such domain
VmStates == {"running", "shutoff", "none"}

\* what the guest execution of lines 337-347 does: lookupByName raises, or
\* subprocess.run returns with an exit code, or it raises TimeoutExpired after
\* `timeout` seconds
GuestOutcomes == {"lookup raises", "exit zero", "exit nonzero", "timeout"}

\* the exception that leaves the inner try body, "none" when it completes
Raised(guest) ==
    CASE guest = "lookup raises" -> "libvirtError"
      [] guest = "timeout" -> "TimeoutExpired"
      [] OTHER -> "none"

\* line 348: a bare `except:` catches every exception
BareExcept(exc) == exc # "none"

\* execute_in_vm, lines 310-375: the guest execution inside the inner try, the
\* simulation fallback of the bare except, success = True; the handlers of the
\* outer try see only what the inner one lets through
execute_in_vm(state, guest) ==
    LET r == [NoExecution EXCEPT !.guest = guest, !.state = state]
        exc == Raised(guest)
    IN IF exc = "none"
       THEN [r EXCEPT !.stdout = "guest", !.stderr = "guest",
                      !.exit_code = IF guest = "exit zero" THEN 0 ELSE 1,
                      !.success = TRUE]
       ELSE IF BareExcept(exc)
       THEN [r EXCEPT !.stdout = "simulated", !.exit_code = 0, !.success = TRUE]
       ELSE IF exc = "TimeoutExpired"
       THEN [r EXCEPT !.stderr = "timed out", !.success = FALSE]
       ELSE [r EXCEPT !.stderr = "error", !.success = FALSE]

\* execute_in_vm called on a VM in state `state` whose guest execution does `guest`
execute_in_vm_call ==
    /\ program = "vm"
    /\ \E state \in VmStates, guest \in GuestOutcomes :
        resp' = [NoResp EXCEPT !.op = "execute_in_vm", !.val = "ok",
                              !.vm = execute_in_vm(state, guest)]
    /\ UNCHANGED <<calls, agent, program, active_sandboxes, sandboxes, execs, dirs, reports, th>>

\* ------------------------------------------------------------ specification
Init ==
    /\ program \in {"manager", "agent", "detector", "serializer", "environment", "vm"}
    /\ ManagerInit
    /\ IF program = "agent" THEN AgentInit ELSE agent = AgentOff

ThreadStep(t) ==
    \/ create_sandbox(t)
    \/ exec_start(t) \/ exec_finish(t) \/ exec_timeout(t) \/ exec_drain(t)
    \/ stop_start(t) \/ stop_wait(t) \/ stop_cleanup(t)
    \/ get_check(t) \/ get_report(t)
    \/ list_start(t) \/ list_next(t)

TargetStep == \E e \in 1..Len(execs) : MainExit(e) \/ ChildExit(e)

Next ==
    \/ \E t \in Threads : ThreadStep(t)
    \/ TargetStep
    \/ AgentNext
    \/ check_anomalies_call
    \/ save_report_call
    \/ execute_program_call
    \/ execute_in_vm_call

Spec == Init /\ [][Next]_vars

\* ------------------------------------------------------------ properties
\* sandbox object o has had an execution reach Popen
Executed(o) == \E e \in 1..Len(execs) : execs[e].sb = o

\* some sandbox was ever created under id
Known(id) == \E o \in 1..Len(sandboxes) : sandboxes[o].sandbox_id = id

\* the saved reports of execution e, of sandbox object o
ReportsOfExec(e) == {r \in reports : r.ex = e}
ReportsOfSandbox(o) == {r \in reports : execs[r.ex].sb = o}

\* how many entries of the event log are of kind k
CountEvents(evs, k) == Cardinality({i \in 1..Len(evs) : evs[i] = k})

\* thread t is inside execute_program with a process started
Executing(t) == th[t].pc \in {"exec_communicate", "exec_drain"}

\* C1: a target still running when the timeout expires ends with report status
\* TERMINATED (manager); its event log holds exactly one timeout-kill event and
\* end_time - start_time >= timeout (agent).
C1_TimeoutIsTerminated ==
    /\ \A r \in reports :
        execs[r.ex].timedOut = "running" => r.report.status = "terminated"
    /\ (agent.pc = "done" /\ ~agent.error /\ agent.end_time - agent.start > agent.timeout)
        => /\ CountEvents(agent.events, "timeout-kill") = 1
           /\ agent.end_time - agent.start_time >= agent.timeout

\* C2: a target that exits with code 0 before the timeout yields a report with
\* status COMPLETED and return_code 0.  (The manager's report carries no event
\* log; the event counts are the agent's, below.)
C2_ExitZeroBeforeTimeout ==
    \A r \in reports :
        execs[r.ex].code = "zero"
            => r.report.status = "completed" /\ r.report.return_code = "zero"

\* C2 where the exit is seen in time: a target that exits with code 0 and whose
\* pipes reach EOF before the timeout expires yields status completed and
\* return_code 0 (manager); a target that exits with code 0 and whose last poll
\* tick comes with elapsed <= timeout yields exactly one process-exited event,
\* carrying returncode 0, and no timeout-kill event (agent).
C2_ExitZeroSeenInTime ==
    /\ \A r \in reports :
        (execs[r.ex].code = "zero" /\ execs[r.ex].timedOut = "no")
            => r.report.status = "completed" /\ r.report.return_code = "zero"
    /\ (agent.pc = "done" /\ agent.code = "zero"
            /\ agent.end_time - agent.start <= agent.timeout)
        => /\ CountEvents(agent.events, "process-exited") = 1
           /\ CountEvents(agent.events, "timeout-kill") = 0
           /\ agent.returncode = "zero"

\* C3: no wait of the engine depends on the target: a thread inside execute or
\* stop that waits for the target can always return by a bound of its own.
\* communicate(timeout) and wait(timeout=5) end at their timeout; the
\* communicate() after the kill has none and ends only at EOF of the pipes.
C3_EveryWaitIsBounded ==
    \A t \in Threads :
        th[t].pc = "exec_drain" => PipesClosed(execs[th[t].ex])

\* C4: stop(id) returns NotFound exactly for an id that was never known; for an
\* id whose sandbox was already stopped it returns success again.
C4_StopIsIdempotent ==
    (resp.op = "stop" /\ resp.val \in {"ok", "NotFound"})
        => (resp.val = "NotFound" <=> ~Known(resp.id))

\* C5: at every moment at most one execution is live per sandbox id.
C5_OneExecutionPerId ==
    \A t1, t2 \in Threads :
        (t1 # t2 /\ Executing(t1) /\ Executing(t2)) => th[t1].id # th[t2].id

\* C6: when stop(id) returns success no process of the sandbox's tree is alive.
C6_StopLeavesNoProcess ==
    (resp.op = "stop" /\ resp.val = "ok")
        => \A e \in 1..Len(execs) : execs[e].sb = resp.sb => ~TreeAlive(execs[e])

C8_ExactlyOneReport ==
    /\ \A e \in 1..Len(execs) :
        (\A t \in Threads : th[t].ex # e) => Cardinality(ReportsOfExec(e)) = 1
    /\ (resp.op = "stop" /\ resp.val = "ok") => ReportsOfSandbox(resp.sb) # {}

\* C9: a list() or get_report() that runs while the registry is mutated returns
\* normally (a result or NotFound): the mutation never makes it fail.
C9_ReadsNeverFail ==
    resp.op \in {"list", "get_report"} => resp.val \in {"ok", "NotFound"}

\* C10: get_report(id) on a tracked sandbox that was created and not yet executed
\* returns a report whose status is running.
C10_ReportBeforeExecuteIsRunning ==
    (resp.op = "get_report" /\ Has(active_sandboxes, resp.id)
        /\ ~Executed(Lookup(active_sandboxes, resp.id)))
        => /\ resp.val = "ok"
           /\ resp.report.status = "running"
           /\ resp.report.sandbox_id = resp.id

C10_Witness ==
    /\ resp.op = "get_report" /\ resp.val = "ok"
    /\ ~Executed(resp.sb)
    /\ resp.report.status = "running"

\* sandbox object o has an execution going on in some thread
Live(o) == \E t \in Threads : Executing(t) /\ th[t].sb = o

\* C11: get_report(id) answers RUNNING only while the sandbox's execution is
\* live: once an execution of the sandbox has ended (its report is saved and no
\* execution of it is going on) the status it returns is a terminal one.
C11_ReportFollowsExecution ==
    (resp.op = "get_report" /\ resp.val = "ok"
        /\ ReportsOfSandbox(resp.sb) # {} /\ ~Live(resp.sb))
        => resp.report.status \in {"completed", "terminated", "error"}

\* some thread takes a step of get_report in this transition
GetReportStep ==
    \E t \in Threads :
        \/ th[t].pc = "idle" /\ th'[t].pc = "get_report"
        \/ th[t].pc = "get_report" /\ th'[t].pc = "idle"
        \/ resp'.op = "get_report"

\* C12: get_report(id) has no side effects: a step of get_report leaves the
\* registry, every sandbox object, every process, the workspaces and the saved
\* report files as they were.
C12_GetReportHasNoSideEffects ==
    [][GetReportStep => UNCHANGED <<active_sandboxes, sandboxes, execs, dirs, reports>>]_vars

C12_Witness ==
    /\ resp.op = "get_report" /\ resp.val = "ok"
    /\ Live(resp.sb)
    /\ MainAlive(execs[sandboxes[resp.sb].main_process])

\* C13: execute, stop and get_report on an id the registry does not hold return
\* the NotFound refusal and mutate nothing: the registry, the sandbox objects,
\* the processes, the workspaces, the saved reports and the threads are as they
\* were, and no process is launched.
C13_NotFoundMutatesNothing ==
    [][resp'.val = "NotFound"
        => UNCHANGED <<active_sandboxes, sandboxes, execs, dirs, reports, th>>]_vars

C13_Witness ==
    /\ resp.op = "execute" /\ resp.val = "NotFound"
    /\ ~Has(active_sandboxes, resp.id)
    /\ Used(active_sandboxes) > 0

\* C14: create never replaces an existing registry entry: an id that is tracked
\* before and after a step still names the same sandbox object.
C14_CreateNeverReplaces ==
    [][\A id \in Ids :
        (Has(active_sandboxes, id) /\ Has(active_sandboxes', id))
            => Lookup(active_sandboxes', id) = Lookup(active_sandboxes, id)]_vars

\* C15: after any sequence of create, execute and stop calls, list() returns one
\* summary for exactly every sandbox that was created and not yet removed by
\* stop: as many summaries as sandboxes constructed less those a stop deleted
\* from the registry.
C15_ListIsEverySandbox ==
    (resp.op = "list" /\ resp.val = "ok")
        => Cardinality(resp.out)
             = Len(sandboxes) - (Len(active_sandboxes) - Used(active_sandboxes))

\* C15 read by id: the ids the registry tracks are those created and not yet
\* stopped (a create adds its id, a stop that succeeds removes its id, no other
\* step changes them), and a list() during which the registry was not mutated
\* returns one summary for each tracked id.
C15_ListIsTheRegistry ==
    [][/\ IF resp'.op = "create"
          THEN Keys(active_sandboxes') = Keys(active_sandboxes) \cup {resp'.id}
          ELSE IF resp'.op = "stop" /\ resp'.val = "ok"
          THEN Keys(active_sandboxes') = Keys(active_sandboxes) \ {resp'.id}
          ELSE Keys(active_sandboxes') = Keys(active_sandboxes)
       /\ (/\ resp'.op = "list" /\ resp'.val = "ok"
           /\ \A t \in Threads :
                (th[t].pc = "list_next" /\ th'[t].pc = "idle") => th[t].ver = Mutations)
            => resp'.out = Keys(active_sandboxes')]_vars

\* sandbox object o is in a terminal state: an execution of it has ended with its
\* report and none is going on
Terminal(o) == ReportsOfSandbox(o) # {} /\ ~Live(o)

\* C16: a terminal state is never left again: a sandbox whose execution has ended
\* does not go back to running.
C16_TerminalIsFinal ==
    [][\A o \in 1..Len(sandboxes) : Terminal(o) => ~Live(o)']_vars

\* C17: a launch failure ends in status ERROR with no telemetry: the manager's
\* report of an execution whose Popen raised has status error, and the agent's
\* report of a failed start carries the error with no process sample, no network
\* snapshot and no event.
C17_LaunchFailureIsError ==
    /\ \A r \in reports :
        execs[r.ex].main = "nolaunch" => r.report.status = "error"
    /\ (agent.pc = "done" /\ agent.error)
        => agent.events = <<>> /\ agent.processes = 0 /\ agent.network = 0

\* C18: whenever the target has spawned more than 50 child processes, the final
\* report of the execution contains the fork-bomb anomaly, also when the main
\* process has exited by the time the report is built.
C18_ForkBombIsReported ==
    \A r \in reports :
        execs[r.ex].many
            => \E i \in 1..Len(r.report.anomalies) :
                    r.report.anomalies[i] = "Possible fork bomb detected"

Rank(a) == CHOOSE k \in 1..Len(AnomalyOrder) : AnomalyOrder[k] = a

Found(as, a) == \E i \in 1..Len(as) : as[i] = a

\* C19: check_anomalies returns exactly the anomalies whose strict threshold the
\* sample crosses (cpu > max_cpu_percent, memory > max_memory_mb, process count >
\* processes_allowed, process count > 50), each once and in the order cpu, memory,
\* process count, fork bomb; none of them at a value equal to its threshold.
C19_AnomaliesAreTheCrossedThresholds ==
    (resp.op = "check_anomalies" /\ resp.usage.ok)
        => LET as == resp.report.anomalies
               u == resp.usage
               c == resp.config
           IN /\ Found(as, AnomalyOrder[1]) <=> u.cpu > c.max_cpu_percent
              /\ Found(as, AnomalyOrder[2]) <=> u.memory > c.max_memory_mb
              /\ Found(as, AnomalyOrder[3]) <=> u.num_procs > c.processes_allowed
              /\ Found(as, AnomalyOrder[4]) <=> u.num_procs > ForkBombLimit
              /\ \A i \in 1..Len(as) : Found(AnomalyOrder, as[i])
              /\ \A i, j \in 1..Len(as) : i < j => Rank(as[i]) < Rank(as[j])

C19_Witness ==
    /\ resp.op = "check_anomalies"
    /\ resp.usage.cpu = resp.config.max_cpu_percent
    /\ resp.usage.memory = resp.config.max_memory_mb + 1
    /\ resp.usage.num_procs = ForkBombLimit + 1
    /\ resp.config.processes_allowed = ForkBombLimit
    /\ resp.report.anomalies = <<AnomalyOrder[2], AnomalyOrder[3], AnomalyOrder[4]>>

\* C20: detecting an anomaly only annotates the report.  A step that returns a
\* report with an anomaly in it kills no process of any tree and removes no
\* sandbox; when the step is get_report's, no sandbox changes between running
\* and ended either.
C20_AnomaliesAreAdvisory ==
    [][(resp'.op \in {"get_report", "execute"} /\ resp'.report.anomalies # <<>>)
        => /\ \A e \in 1..Len(execs) :
                /\ MainAlive(execs[e]) => MainAlive(execs'[e])
                /\ ChildAlive(execs[e]) => ChildAlive(execs'[e])
           /\ active_sandboxes' = active_sandboxes
           /\ resp'.op = "get_report"
                => \A o \in 1..Len(sandboxes) :
                        /\ Live(o)' = Live(o)
                        /\ Terminal(o)' = Terminal(o)]_vars

C20_Witness ==
    /\ resp.op = "get_report" /\ resp.val = "ok"
    /\ resp.report.anomalies # <<>>
    /\ Live(resp.sb)
    /\ TreeAlive(execs[sandboxes[resp.sb].main_process])

\* C21: with policy.strict set, the Manager signals TERMINATE to the target on
\* the first anomaly detected during the run.  (SandboxConfig has no field
\* `strict` and the create handler reads max_cpu, max_memory_mb and max_duration
\* alone, so a caller who asks for strict gets a sandbox like every other: the
\* formula speaks of every sandbox.)  A step that returns a report with an
\* anomaly in it, built while the sandbox's target was running, leaves no main
\* process that heeds SIGTERM running.
C21_StrictTerminatesOnAnomaly ==
    [][(resp'.op \in {"get_report", "execute"} /\ resp'.report.anomalies # <<>>)
        => LET m == sandboxes[resp'.sb].main_process
           IN (m # 0 /\ MainAlive(execs[m]) /\ ~execs[m].ignTerm)
                => ~MainAlive(execs'[m])]_vars

\* C22: when the pre-scan finds the target above the threat threshold (not
\* 'safe'), execute is refused with PolicyRejected, no process is launched and
\* no sandbox state changes; when execution proceeds, the report carries the
\* pre-scan result.
C22_PreScanRejects ==
    [][/\ resp'.scan = "unsafe"
            => /\ resp'.op = "execute" /\ resp'.val = "PolicyRejected"
               /\ UNCHANGED <<active_sandboxes, sandboxes, execs, dirs, reports, th>>
       /\ (resp'.op = "execute" /\ resp'.val = "ok")
            => "pre_analysis" \in DOMAIN resp'.report]_vars

\* C23: a report is a function of the sandbox's logged state, built without a
\* read of the live process.  execute_in_sandbox derives the anomalies twice
\* from the same sandbox object, once for the 'anomalies' of its result and once
\* inside the report it builds next: the two are the same.
C23_ReportIsAFunctionOfTheLog ==
    (resp.op = "execute" /\ resp.val = "ok") => resp.report.anomalies = resp.anomalies

\* C24: serializing a report and deserializing the result gives a report equal
\* to the original field for field: the same fields, each equal to the
\* original's, a None return_code and the empty lists included.
C24_ReportRoundTrip ==
    resp.op = "save_report"
        => /\ DOMAIN resp.loaded = DOMAIN resp.full
           /\ \A f \in DOMAIN resp.full : PyEq(resp.loaded[f], resp.full[f])

C24_Witness ==
    /\ resp.op = "save_report"
    /\ resp.full.return_code = PyNone
    /\ resp.file.return_code = <<"null">>
    /\ resp.loaded.return_code = PyNone
    /\ resp.full.total_cpu_used = PyFloat(10 * DefaultMaxCpu + 5)
    /\ resp.file.total_cpu_used = <<"2", "0", ".", "5">>
    /\ resp.full.anomalies_detected = PyList(<<>>)
    /\ resp.loaded.anomalies_detected = PyList(<<>>)
    /\ resp.loaded = resp.full

\* C25: every execution persists its own report file, named by sandbox id and
\* timestamp: a step that ends an execution adds one file to the reports
\* directory, and no step removes or replaces a file that is there, however
\* close in time two executions of the same id end.
C25_ReportsAreNeverOverwritten ==
    [][/\ reports \subseteq reports'
       /\ (resp'.op = "execute" /\ resp'.val = "ok")
            => Cardinality(reports') = Cardinality(reports) + 1]_vars

\* the workspace directory of sandbox object o: <tmp>/safebox-sandboxes/<id>
Workspace(o) == sandboxes[o].sandbox_id

\* C26: a workspace is owned by exactly one sandbox, from its create() to its
\* stop: a stop that succeeds removes the workspace of the sandbox it stopped and
\* never the workspace of another sandbox.
C26_StopRemovesOnlyItsOwnWorkspace ==
    [][(resp'.op = "stop" /\ resp'.val = "ok")
        => \A o \in 1..Len(sandboxes) :
            (o # resp'.sb /\ Workspace(o) \in dirs) => Workspace(o) \in dirs']_vars

\* C27: every call of run_monitored that returns (after a normal exit, a
\* timeout or a launch failure) returns the path of a report file it has
\* written, and the file has start_time, end_time, path, events, processes and
\* network.
C27_AlwaysAReportFile ==
    /\ agent.pc = "done"
        => /\ agent.ret = "fname"
           /\ agent.files = 1
           /\ {"start_time", "end_time", "path", "events", "processes", "network"}
                \subseteq agent.written
    /\ agent.ret # "none" => agent.pc = "done"

C27_Witness ==
    /\ agent.pc = "done"
    /\ agent.ret = "fname"
    /\ CountEvents(agent.events, "timeout-kill") = 1
    /\ "end_time" \in agent.written
    /\ agent.processes > 0

\* C28: the target always runs with SANDBOX_ID, SANDBOX_ROOT, HOME and TMPDIR
\* bound to its own sandbox's workspace and with the workspace root as working
\* directory, whatever environment the caller passes.
C28_OverlayAlwaysWins ==
    resp.op = "execute_program"
        => /\ \A k \in {"SANDBOX_ID", "SANDBOX_ROOT", "HOME", "TMPDIR"} :
                resp.env[k] = Overlay[k]
           /\ resp.cwd = "sandbox_dir"

\* C29: within a poll tick the timeout check comes before the exit check: a run
\* whose last tick (the run was not interrupted) began with the elapsed time
\* over the limit and the main process already gone by itself records
\* timeout-kill and not process-exited, and no run records both.
C29_TimeoutCheckedFirst ==
    /\ (/\ agent.pc = "done" /\ ~agent.error
        /\ CountEvents(agent.events, "keyboard-interrupt") = 0
        /\ agent.end_time - agent.start > agent.timeout
        /\ agent.code \in {"zero", "nonzero"})
        => /\ CountEvents(agent.events, "timeout-kill") = 1
           /\ CountEvents(agent.events, "process-exited") = 0
    /\ ~(/\ CountEvents(agent.events, "timeout-kill") > 0
         /\ CountEvents(agent.events, "process-exited") > 0)

C29_Witness ==
    /\ agent.pc = "done"
    /\ agent.code = "zero"
    /\ agent.exitAt <= agent.start + agent.timeout
    /\ agent.end_time - agent.start > agent.timeout
    /\ agent.events = <<"timeout-kill">>

\* C30: an external stop request that arrives while the sandbox is running ends
\* it TERMINATED: the report of an execution whose target stop_sandbox signalled
\* while it ran (it died of the signal, and not at the timeout) does not say
\* completed.
C30_StopRequestIsTerminated ==
    \A r \in reports :
        (execs[r.ex].code = "signal" /\ execs[r.ex].timedOut = "no")
            => r.report.status = "terminated"

\* C31: process-creation alerts are monotonic: over a whole run every pid is in
\* at most one process-created event, and a pid that was in the baseline when
\* monitoring started is in none.
C31_AlertsAreMonotonic ==
    /\ \A i, j \in 1..Len(agent.created) :
        i # j => agent.created[i] # agent.created[j]
    /\ \A i \in 1..Len(agent.created) : agent.created[i] \notin agent.baseline0
    /\ CountEvents(agent.events, "process-created") = Len(agent.created)

C31_Witness ==
    /\ agent.pc = "done"
    /\ agent.baseline0 # {}
    /\ Len(agent.created) = 1
    /\ agent.processes >= 2
    /\ agent.baseline = Pids

\* C32: a failure of the network sample never aborts the poll loop and degrades
\* the tick to an empty snapshot: every tick that gets as far as the network
\* sample, whether the sample fails or not, appends one snapshot and goes on to
\* the sleep.
C32_FailedSampleIsEmptySnapshot ==
    [][(agent.pc = "loop" /\ agent'.processes = agent.processes + 1)
        => /\ agent'.network = agent.network + 1
           /\ agent'.pc = "sleep"]_vars

\* C33: the exit status of the main process is captured exactly once and is the
\* status the process exited with, the event that carries it ends the run, and
\* once process-exited is in the event log no process sample, network snapshot
\* or event is appended
C33_NothingAfterProcessExited ==
    [][/\ Found(agent'.events, "process-exited")
            => /\ CountEvents(agent'.events, "process-exited") = 1
               /\ agent'.returncode = agent'.code
               /\ agent'.pc = "done"
       /\ Found(agent.events, "process-exited")
            => /\ agent'.events = agent.events
               /\ agent'.processes = agent.processes
               /\ agent'.network = agent.network]_vars

\* a run that sampled the target, then logged its exit with a nonzero status
C33_Witness ==
    /\ agent.pc = "done"
    /\ Found(agent.events, "process-exited")
    /\ agent.returncode = "nonzero"
    /\ agent.processes >= 1 /\ agent.network >= 1

\* C34: a stop() whose removal of the workspace failed still returns success,
\* leaves the registry without the id, and leaves the recorded reports as they
\* were.
C34_RmtreeFailureDoesNotFailStop ==
    [][(resp'.op = "stop" /\ resp'.rm = "failed")
        => /\ resp'.val = "ok"
           /\ ~Has(active_sandboxes', resp'.id)
           /\ reports' = reports]_vars

\* C35: in execute_in_vm a command that runs longer than `timeout` seconds gives
\* a result with success False and stderr reporting the timeout, never success
\* True with exit code 0.
C35_TimeoutIsReportedAsFailure ==
    (resp.op = "execute_in_vm" /\ resp.vm.guest = "timeout")
        => /\ resp.vm.success = FALSE
           /\ resp.vm.stderr = "timed out"
           /\ ~(resp.vm.success /\ resp.vm.exit_code = 0)

\* C36: when the engine returns from an execution that ended by timeout, no
\* process of the target's tree is alive: execute_in_sandbox returns with the
\* main process and its descendants dead (manager), and run_monitored returns
\* after a timeout-kill with the target dead, also one that ignores SIGTERM
\* (agent).
C36_TimeoutLeavesNoProcess ==
    /\ (resp.op = "execute" /\ resp.val = "ok" /\ resp.ex # 0
            /\ execs[resp.ex].timedOut # "no")
        => ~TreeAlive(execs[resp.ex])
    /\ (agent.pc = "done" /\ Found(agent.events, "timeout-kill"))
        => agent.target # "running"

\* C37: two concurrent stop(id) calls on the same tracked sandbox both return
\* without raising: every stop returns success or NotFound, and after it has
\* returned the registry is without the id.
C37_ConcurrentStopsBothReturn ==
    resp.op = "stop"
        => /\ resp.val \in {"ok", "NotFound"}
           /\ ~Has(active_sandboxes, resp.id)

\* C38: the process count the anomaly check compares with the limit is the count
\* the report gives as total_processes: in one report, total_processes >
\* max_processes holds exactly when the process-count anomaly is listed.
C38_OneProcessCount ==
    (resp.op = "check_anomalies" /\ resp.usage.ok)
        => (resp.total_processes > resp.config.processes_allowed
                <=> Found(resp.report.anomalies, "Too many processes"))

====
